---- MODULE Spec2Model ----
(***************************************************************************)
(* Model of the reapergt-app backend: the scraper Lambda                   *)
(* (backend/scraper/scraper.py), the notifier Lambda                       *)
(* (backend/notifier/notifier.py) and the API handler                      *)
(* (backend/app_function/app.py) over the two DynamoDB tables.             *)
(*                                                                         *)
(* Every store call (get_item, put_item, delete_item, scan), every HTTP    *)
(* fetch, every Lambda invocation and every SMS gateway call is a          *)
(* suspension point: the three programs interleave between them.           *)
(***************************************************************************)
EXTENDS Integers, Sequences, FiniteSets, TLC

\* ------------------------------------------------------------------ bounds
Users == {"u1", "u2"}
CRNs == {"c1"}
MaxSeats == 1        \* registrar rows carry Remaining in 0..MaxSeats
MaxTicks == 3        \* scraper ticks in one run of the model
MaxRecords == 3      \* records in a metadata collection given to calculate_next_interval
MaxEvents == 2       \* environment events in one run of the model: registrar
                     \* changes, API requests, failures of a store, HTTP,
                     \* Lambda or SMS gateway call

\* Python None / a missing attribute of an item.
None == 0 - 1

\* dict.get(key, default)
Get(v, d) == IF v = None THEN d ELSE v

\* send_notification tries the invocation range(3) times.
INVOKE_ATTEMPTS == 3

\* scraper.py:28-32  dynamic interval constants, and the two thresholds of
\* calculate_next_interval written as literals (lines 205 and 207).
BASE_INTERVAL == 15
FAST_INTERVAL == 5
SLOW_INTERVAL == 20
OPEN_COURSE_INTERVAL == 30
RECENTLY_CHANGED_THRESHOLD == 5
HIGH_DEMAND_USERS == 3
CONSISTENTLY_CLOSED_CHECKS == 15

\* ------------------------------------------------------------ registrar
\* A registrar detail page: identity row present or not, seats row present
\* or not, and the (Capacity, Remaining) cells of the seats row.
NotFoundPage == [identity |-> FALSE, seatsrow |-> FALSE, capacity |-> 0, remaining |-> 0]
NoSeatsPage == [identity |-> TRUE, seatsrow |-> FALSE, capacity |-> 0, remaining |-> 0]
SeatPage(r) == [identity |-> TRUE, seatsrow |-> TRUE, capacity |-> MaxSeats, remaining |-> r]
\* A seats row of any three non-negative integers: the Remaining cell is
\* not tied to the Capacity cell.
RowPage(cap, r) == [identity |-> TRUE, seatsrow |-> TRUE, capacity |-> cap, remaining |-> r]
RowPages == {RowPage(cap, r) : cap \in 0..MaxSeats, r \in 0..MaxSeats}
Pages == {NotFoundPage, NoSeatsPage} \cup {SeatPage(r) : r \in 0..MaxSeats}

\* The scraper's availability_data is None (no identity row, HTTP error).
NoAvail == [ok |-> FALSE, is_open |-> FALSE, seats_remaining |-> 0, total_seats |-> 0, last_checked |-> None]

\* A parse that calls a course open when it has any capacity.
parse_course_data_ByCapacity(page, now) ==
  IF ~page.identity THEN NoAvail
  ELSE LET seats_remaining == IF page.seatsrow THEN page.remaining ELSE 0
           total_seats == IF page.seatsrow THEN page.capacity ELSE 0
       IN [ok |-> TRUE, is_open |-> total_seats > 0,
           seats_remaining |-> seats_remaining, total_seats |-> total_seats,
           last_checked |-> now]

\* A parse that gives up when the seats row is missing.
parse_course_data_NoRowFails(page, now) ==
  IF ~page.identity \/ ~page.seatsrow THEN NoAvail
  ELSE [ok |-> TRUE, is_open |-> page.remaining > 0,
        seats_remaining |-> page.remaining, total_seats |-> page.capacity,
        last_checked |-> now]

\* scraper.py parse_course_data: None without identity row; a missing seats
\* row leaves seats_remaining = total_seats = 0; is_open = seats_remaining > 0.
parse_course_data(page, now) ==
  IF ~page.identity THEN NoAvail
  ELSE LET seats_remaining == IF page.seatsrow THEN page.remaining ELSE 0
           total_seats == IF page.seatsrow THEN page.capacity ELSE 0
       IN [ok |-> TRUE, is_open |-> seats_remaining > 0,
           seats_remaining |-> seats_remaining, total_seats |-> total_seats,
           last_checked |-> now]

\* app.py check_crn_exists: the same parse, but course_info carries no
\* last_checked key ('exists' is the ok field).
check_crn_exists(page) ==
  IF ~page.identity THEN NoAvail
  ELSE LET seats_remaining == IF page.seatsrow THEN page.remaining ELSE 0
           total_seats == IF page.seatsrow THEN page.capacity ELSE 0
       IN [ok |-> TRUE, is_open |-> page.seatsrow /\ seats_remaining > 0,
           seats_remaining |-> seats_remaining, total_seats |-> total_seats,
           last_checked |-> None]

\* ------------------------------------------------------------- sequences
InSeq(x, s) == \E i \in 1..Len(s) : s[i] = x
Without(s, x) == SelectSeq(s, LAMBDA y : y # x)
AppendNew(s, x) == IF InSeq(x, s) THEN s ELSE Append(s, x)
Orders(S) == {s \in [1..Cardinality(S) -> S] : \A i, j \in 1..Cardinality(S) : s[i] = s[j] => i = j}

\* A table is a function from the keys present to items.
Put(t, k, item) == [x \in (DOMAIN t) \cup {k} |-> IF x = k THEN item ELSE t[x]]
Delete(t, k) == [x \in (DOMAIN t) \ {k} |-> t[x]]

VARIABLES
  users_table,   \* reaper-users: user_id -> [phone_number, crns, notified_crns]
  crns_table,    \* reaper-crns: crn -> CRN record
  regPage,       \* the registrar's current page of each CRN
  clock,         \* number of scraper ticks started: the timestamp of a tick's observations
  spc,           \* scraper: "idle", "get", "put", "invoke"
  statuses,      \* scraper: current_statuses of the running tick
  results,       \* scraper: gathered (crn, availability_data)
  todo,          \* scraper: results not yet processed, the current one first
  existing,      \* scraper: existing_crn read by the running update
  attempt,       \* scraper: send_notification's attempt
  crn_metadata,  \* scraper: crn_metadata scanned at the start of the running tick
  next_interval, \* scraper: the sleep chosen at the end of the last tick
  inbox,         \* asynchronous notifier invocations not yet started
  npc,           \* notifier: "idle", "send", "mark", "markput"
  nev,           \* notifier: the event being handled
  nusers,        \* notifier: users_with_phone not yet handled, the current one first
  nitem,         \* notifier: user_item read by mark_user_notified
  hpc,           \* API handler: "idle", "addput", "remput", "refput"
  hcrn,          \* API handler: the CRN of the running request
  hitem,         \* API handler: the CRN item about to be written
  hlist,         \* API handler: /refresh CRNs not yet refreshed
  event,         \* API handler: the event lambda_handler was called with
  response,      \* API handler: what lambda_handler answered before routing
  elapsed,       \* scraper handler: seconds since start_time at the last clock reading
  lpc,           \* scraper handler: "while", "try", "returned" ("untimed": ticks without the loop)
  status,        \* scraper handler: the statusCode returned
  events,        \* environment events so far, by kind: reg, req, fault
  sms,           \* history: SMS accepted by the gateway, per user and CRN
  epSms,         \* history: of those, the ones sent in the CRN's current open episode
  nOpened        \* history: closed-to-open observations processed, per CRN

vars == <<users_table, crns_table, regPage, clock, spc, statuses, results, todo,
          existing, attempt, crn_metadata, next_interval, inbox, npc, nev, nusers, nitem, hpc, hcrn,
          hitem, hlist, event, response, elapsed, lpc, status, events, sms, epSms, nOpened>>

loopVars == <<elapsed, lpc, status>>
gateVars == <<event, response>>
scraperVars == <<spc, statuses, results, todo, existing, attempt, crn_metadata, next_interval,
                 loopVars>>
notifierVars == <<npc, nev, nusers, nitem>>
handlerVars == <<hpc, hcrn, hitem, hlist, gateVars>>

NoItem == [absent |-> TRUE]
EmptyTable == [x \in {} |-> NoItem]

\* The stored record of c says open.
StoredOpen(t, c) == c \in DOMAIN t /\ t[c].isOpen

\* An open episode of c ends when the stored record stops saying open.
EpAfter(t, ep) == [u \in Users |-> [c \in CRNs |-> IF StoredOpen(t, c) THEN ep[u][c] ELSE 0]]

\* app.py add_crn_to_user: the CRN item the handler puts (no
\* consecutive_closed_checks, no last_status_change, last_updated None).
HandlerCrnItem(course_info, users) ==
  [isOpen |-> course_info.is_open,
   seats_remaining |-> course_info.seats_remaining,
   total_seats |-> course_info.total_seats,
   users |-> users,
   last_updated |-> course_info.last_checked,
   last_status_change |-> None,
   consecutive_closed_checks |-> None]

\* A new user item: user_item = {} plus user_id and the written field.
NewUser ==
  [phone_number |-> FALSE, push_subscription |-> FALSE, crns |-> <<>>,
   notified_crns |-> <<>>]
UserItem(u) == IF u \in DOMAIN users_table THEN users_table[u] ELSE NewUser

\* ------------------------------------------------------------------ Init
\* The tables as the API handler leaves them after the users' first
\* requests, made while the registrar showed the course full: some users
\* registered a phone, some added the CRN.
InitWith(pages, mds, checks) ==
  /\ \E P \in SUBSET Users, T \in {{"u1"}, {"u1", "u2"}} :
       /\ users_table = [u \in P \cup T |->
                           [phone_number |-> u \in P,
                            push_subscription |-> FALSE,
                            crns |-> IF u \in T THEN <<"c1">> ELSE <<>>,
                            notified_crns |-> <<>>]]
       /\ crns_table = [c \in {"c1"} |->
                           [HandlerCrnItem(check_crn_exists(SeatPage(0)),
                                           IF T = {"u1"} THEN <<"u1">> ELSE <<"u1", "u2">>)
                              EXCEPT !.consecutive_closed_checks = checks,
                                     !.last_updated = IF checks = None THEN None ELSE 0]]
  /\ regPage \in [CRNs -> pages]
  /\ clock = 0
  /\ spc = "idle" /\ statuses = EmptyTable /\ results = EmptyTable /\ todo = <<>>
  /\ existing = NoItem /\ attempt = 0
  /\ crn_metadata \in mds /\ next_interval = None
  /\ inbox = <<>>
  /\ npc = "idle" /\ nev = NoItem /\ nusers = <<>> /\ nitem = NoItem
  /\ hpc = "idle" /\ hcrn = "c1" /\ hitem = NoItem /\ hlist = <<>>
  /\ events = [reg |-> 0, req |-> 0, fault |-> 0]
  /\ sms = [u \in Users |-> [c \in CRNs |-> 0]]
  /\ epSms = [u \in Users |-> [c \in CRNs |-> 0]]
  /\ nOpened = [c \in CRNs |-> 0]

\* The ticks taken without the handler's loop around them, and no request
\* at the authentication gate.
Untimed == elapsed = 0 /\ lpc = "untimed" /\ status = None
NoRequest == event = NoItem /\ response = NoItem

Init == InitWith({SeatPage(0), SeatPage(1)}, {EmptyTable}, None) /\ Untimed /\ NoRequest

\* ------------------------------------------------------- fault injection
\* One more environment event, within the bound.
EventCount == events.reg + events.req + events.fault
Event(kind) == EventCount < MaxEvents /\ events' = [events EXCEPT ![kind] = @ + 1]
\* A call that succeeds, or fails as an environment event.
Outcome(ok) == IF ok THEN events' = events ELSE Event("fault")

\* ------------------------------------------------------ adaptive interval
\* scraper.py:154-162  the metadata of a scanned item that
\* calculate_next_interval reads.
Metadata(item) ==
  [isOpen |-> item.isOpen,
   users_count |-> Len(item.users),
   consecutive_closed_checks |-> Get(item.consecutive_closed_checks, 0)]

\* A choice that takes BASE already when the two counts are equal.
ChooseInterval_AtLeast(recently_opened, recently_changed, stable_open, high_demand_closed, consistently_closed) ==
  IF recently_opened > 0 \/ recently_changed > 0 THEN FAST_INTERVAL
  ELSE IF stable_open > 0 THEN OPEN_COURSE_INTERVAL
  ELSE IF high_demand_closed >= consistently_closed THEN BASE_INTERVAL
  ELSE SLOW_INTERVAL

\* scraper.py:213-231  the interval from the five counts.
ChooseInterval(recently_opened, recently_changed, stable_open, high_demand_closed, consistently_closed) ==
  IF recently_opened > 0 \/ recently_changed > 0 THEN FAST_INTERVAL
  ELSE IF stable_open > 0 THEN OPEN_COURSE_INTERVAL
  ELSE IF high_demand_closed > consistently_closed THEN BASE_INTERVAL
  ELSE SLOW_INTERVAL

\* scraper.py:171-233  calculate_next_interval: each record is counted in
\* the first class of the if/elif chain it falls in.
calculate_next_interval(md) ==
  IF DOMAIN md = {} THEN BASE_INTERVAL
  ELSE LET recent(k) == md[k].consecutive_closed_checks <= RECENTLY_CHANGED_THRESHOLD
           high(k) == md[k].users_count >= HIGH_DEMAND_USERS
           long(k) == md[k].consecutive_closed_checks >= CONSISTENTLY_CLOSED_CHECKS
           recently_opened == {k \in DOMAIN md : md[k].isOpen /\ recent(k)}
           stable_open == {k \in DOMAIN md : md[k].isOpen /\ ~recent(k)}
           high_demand_closed == {k \in DOMAIN md : ~md[k].isOpen /\ high(k)}
           consistently_closed == {k \in DOMAIN md : ~md[k].isOpen /\ ~high(k) /\ long(k)}
           recently_changed == {k \in DOMAIN md : ~md[k].isOpen /\ ~high(k) /\ ~long(k) /\ recent(k)}
       IN ChooseInterval(Cardinality(recently_opened), Cardinality(recently_changed),
                         Cardinality(stable_open), Cardinality(high_demand_closed),
                         Cardinality(consistently_closed))

\* A handler that sleeps FAST when the scan finds nothing.
TickInterval_FastWhenEmpty(crns_to_check, md) ==
  IF crns_to_check = {} THEN FAST_INTERVAL ELSE calculate_next_interval(md)

\* scraper.py:65-76  the handler's choice at the end of a tick.
TickInterval(crns_to_check, md) ==
  IF crns_to_check = {} THEN BASE_INTERVAL ELSE calculate_next_interval(md)

\* The metadata collections calculate_next_interval is applied to: up to
\* MaxRecords records, each field on either side of the thresholds.
CccValues ==
  {0, RECENTLY_CHANGED_THRESHOLD, RECENTLY_CHANGED_THRESHOLD + 1,
   CONSISTENTLY_CLOSED_CHECKS - 1, CONSISTENTLY_CLOSED_CHECKS}
UsersCounts == {HIGH_DEMAND_USERS - 1, HIGH_DEMAND_USERS}
MetaRecords ==
  [isOpen : BOOLEAN, users_count : UsersCounts, consecutive_closed_checks : CccValues]
MetaKeys == {ToString(i) : i \in 1..MaxRecords}
MetaCollections == UNION {[K -> MetaRecords] : K \in SUBSET MetaKeys}

\* --------------------------------------------------------------- scraper
\* scraper.py:291  was_closed = current_statuses.get(crn, 'closed') == 'closed'
WasClosed(st, c) == IF c \in DOMAIN st THEN st[c] = "closed" ELSE TRUE

\* A decision that notifies on every open observation.
ShouldNotify_AnyOpen(is_open, was_closed) == is_open

\* scraper.py:297  if is_open and was_closed: send_notification(...)
ShouldNotify(is_open, was_closed) == is_open /\ was_closed

\* A stamp renewed by every observation.
NewLastStatusChange_Always(existing_crn, availability, old_status) ==
  availability.last_checked

\* scraper.py:456-463  status_changed and the last_status_change stamp
NewLastStatusChange(existing_crn, availability, old_status) ==
  LET new_status == IF availability.is_open THEN "open" ELSE "closed"
  IN IF old_status # new_status THEN availability.last_checked
     ELSE existing_crn.last_status_change

\* A counter that an open observation leaves as it was.
NewConsecutiveClosed_Keep(existing_crn, availability) ==
  Get(existing_crn.consecutive_closed_checks, 0) + (IF ~availability.is_open THEN 1 ELSE 0)

\* A counter that a closed observation starts again at 1.
NewConsecutiveClosed_FromOne(existing_crn, availability) ==
  IF ~availability.is_open THEN 1 ELSE 0

\* scraper.py:465-470  consecutive closed checks
NewConsecutiveClosed(existing_crn, availability) ==
  IF ~availability.is_open THEN Get(existing_crn.consecutive_closed_checks, 0) + 1
  ELSE 0

\* A write that keeps the availability and forgets who tracks the CRN.
UpdatedCrn_DropsUsers(existing_crn, availability, old_status) ==
  [isOpen |-> availability.is_open,
   seats_remaining |-> availability.seats_remaining,
   total_seats |-> availability.total_seats,
   users |-> <<>>,
   last_updated |-> availability.last_checked,
   last_status_change |-> existing_crn.last_status_change,
   consecutive_closed_checks |-> Get(existing_crn.consecutive_closed_checks, 0)]

\* scraper.py:472-485  updated_crn
UpdatedCrn(existing_crn, availability, old_status) ==
  [isOpen |-> availability.is_open,
   seats_remaining |-> availability.seats_remaining,
   total_seats |-> availability.total_seats,
   users |-> existing_crn.users,
   last_updated |-> availability.last_checked,
   last_status_change |-> NewLastStatusChange(existing_crn, availability, old_status),
   consecutive_closed_checks |-> NewConsecutiveClosed(existing_crn, availability)]

\* A failed fetch that starts the counter again at 1.
FailedCrn_Restart(existing_crn) ==
  [existing_crn EXCEPT !.consecutive_closed_checks = 1]

\* scraper.py:513-517  update_crn_metadata: only the counter changes
FailedCrn(existing_crn) ==
  [existing_crn EXCEPT !.consecutive_closed_checks = Get(@, 0) + 1]

\* A loop that takes the results from the other end.
cur_Last == todo[Len(todo)]

cur == Head(todo)

\* The loop of process_crns_with_metadata moves to the next result; after
\* the last one the tick is over and its locals are gone.
\* A loop that gives up the remaining results of the tick.
Advance_Abandon ==
  /\ todo' = <<>>
  /\ spc' = "idle"
  /\ statuses' = EmptyTable
  /\ results' = EmptyTable
  /\ existing' = NoItem
  /\ next_interval' = TickInterval(DOMAIN statuses, crn_metadata)
  /\ crn_metadata' = EmptyTable

Advance ==
  /\ todo' = Tail(todo)
  /\ spc' = IF Tail(todo) = <<>> THEN "idle" ELSE "get"
  /\ statuses' = IF Tail(todo) = <<>> THEN EmptyTable ELSE statuses
  /\ results' = IF Tail(todo) = <<>> THEN EmptyTable ELSE results
  /\ existing' = NoItem
  /\ next_interval' = IF Tail(todo) = <<>>
                      THEN TickInterval(DOMAIN statuses, crn_metadata) ELSE next_interval
  /\ crn_metadata' = IF Tail(todo) = <<>> THEN EmptyTable ELSE crn_metadata

\* scraper.py:288-303  after the update returned: `continue` for a failed
\* fetch, else the notification decision.
AfterUpdate ==
  /\ nOpened' = IF results[cur].ok /\ results[cur].is_open /\ statuses[cur] = "closed"
                THEN [nOpened EXCEPT ![cur] = @ + 1] ELSE nOpened
  /\ IF results[cur].ok /\ ShouldNotify(results[cur].is_open, WasClosed(statuses, cur))
     THEN spc' = "invoke" /\ attempt' = 0
          /\ UNCHANGED <<todo, statuses, results, existing, crn_metadata, next_interval>>
     ELSE Advance /\ attempt' = attempt

\* scraper.py:55-71, 133-169, 279-280 and 308-332  a tick starts: the scan
\* (a failed scan returns empty sets), then the gathered fetches, which
\* read the registrar only; a fetch that fails (status, transport) or
\* finds no identity row yields None.
ScanAt(now, ok, failed, ord) ==
  /\ spc = "idle"
  /\ clock' = now
  /\ Outcome(ok /\ failed = {})
  /\ LET S == IF ok THEN {c \in DOMAIN crns_table : crns_table[c].users # <<>>} ELSE {}
     IN /\ failed \subseteq S /\ ord \in Orders(S)
        /\ ok \/ failed = {}
        /\ statuses' = [c \in S |-> IF crns_table[c].isOpen THEN "open" ELSE "closed"]
        /\ results' = [c \in S |->
                         IF c \in failed THEN NoAvail
                         ELSE parse_course_data(regPage[c], clock')]
        /\ todo' = ord
        /\ spc' = IF S = {} THEN "idle" ELSE "get"
        /\ crn_metadata' = IF S = {} THEN EmptyTable ELSE [c \in S |-> Metadata(crns_table[c])]
        /\ next_interval' = IF S = {} THEN TickInterval(S, EmptyTable) ELSE None
  /\ UNCHANGED <<existing, attempt, users_table, crns_table, regPage, inbox,
                 notifierVars, handlerVars, sms, epSms, nOpened,
                 loopVars>>

\* A tick of a run of at most MaxTicks ticks.
Scan(ok, failed, ord) == clock < MaxTicks /\ ScanAt(clock + 1, ok, failed, ord)

\* A tick of a run that never ends: the timestamps stop at MaxTicks.
ScanLive(ok, failed, ord) ==
  ScanAt(IF clock < MaxTicks THEN clock + 1 ELSE clock, ok, failed, ord)

\* scraper.py:447-454 and 505-511  get_item of the record; a missing item
\* or a store error ends the update without a write.
GetRecord(ok) ==
  /\ spc = "get"
  /\ Outcome(ok)
  /\ IF ok /\ cur \in DOMAIN crns_table
     THEN /\ existing' = crns_table[cur] /\ spc' = "put"
          /\ UNCHANGED <<todo, attempt, nOpened, statuses, results, crn_metadata, next_interval>>
     ELSE AfterUpdate
  /\ UNCHANGED <<users_table, crns_table, regPage, clock, inbox,
                 notifierVars, handlerVars, sms, epSms,
                 loopVars>>

\* scraper.py:487 and 519  put_item of the whole record; a store error is
\* logged and the loop goes on.
PutRecord(ok) ==
  /\ spc = "put"
  /\ Outcome(ok)
  /\ LET item == IF results[cur].ok
                 THEN UpdatedCrn(existing, results[cur], statuses[cur])
                 ELSE FailedCrn(existing)
     IN IF ok
        THEN /\ crns_table' = Put(crns_table, cur, item)
        ELSE UNCHANGED crns_table
  /\ epSms' = EpAfter(crns_table', epSms)
  /\ AfterUpdate
  /\ UNCHANGED <<users_table, regPage, clock, inbox,
                 notifierVars, handlerVars, sms,
                 loopVars>>

\* A loop that goes on to the next attempt after an accepted invocation.
SendAttempt_NoReturn(accepted) ==
  /\ spc = "invoke"
  /\ inbox' = IF accepted
              THEN Append(inbox, [crn |-> cur, seats_remaining |-> results[cur].seats_remaining])
              ELSE inbox
  /\ IF attempt + 1 >= INVOKE_ATTEMPTS
     THEN Advance /\ attempt' = attempt
     ELSE /\ attempt' = attempt + 1
          /\ UNCHANGED <<spc, todo, statuses, results, existing, crn_metadata, next_interval>>
  /\ UNCHANGED <<users_table, crns_table, regPage, clock,
                 notifierVars, handlerVars, sms, epSms, nOpened,
                 loopVars>>

\* scraper.py:548-570  one pass of the loop of send_notification: the
\* asynchronous invocation, answered 202 or not; the function returns at
\* the first 202 and after the last of INVOKE_ATTEMPTS attempts.
SendAttempt(accepted) ==
  /\ spc = "invoke"
  /\ IF accepted
     THEN /\ inbox' = Append(inbox, [crn |-> cur, seats_remaining |-> results[cur].seats_remaining])
          /\ Advance /\ attempt' = attempt
     ELSE /\ inbox' = inbox
          /\ IF attempt + 1 >= INVOKE_ATTEMPTS
             THEN Advance /\ attempt' = attempt
             ELSE /\ attempt' = attempt + 1
                  /\ UNCHANGED <<spc, todo, statuses, results, existing, crn_metadata, next_interval>>
  /\ UNCHANGED <<users_table, crns_table, regPage, clock,
                 notifierVars, handlerVars, sms, epSms, nOpened,
                 loopVars>>

\* scraper.py:525-570  send_notification: an attempt that is not answered
\* 202 is an environment event.
Invoke(accepted) == Outcome(accepted) /\ SendAttempt(accepted)

Scraper ==
  \/ \E ok \in BOOLEAN, failed \in SUBSET CRNs, ord \in Orders(DOMAIN crns_table) :
       Scan(ok, failed, ord)
  \/ \E ok \in BOOLEAN : GetRecord(ok)
  \/ \E ok \in BOOLEAN : PutRecord(ok)
  \/ \E accepted \in BOOLEAN : Invoke(accepted)

\* -------------------------------------------------------------- notifier
\* A lookup that does not ask for a phone number.
EligibleUser_TrackingOnly(user_item, crn) == InSeq(crn, user_item.crns)

\* A lookup that skips the users already marked notified for the CRN.
EligibleUser_Dedup(user_item, crn) ==
  user_item.phone_number /\ InSeq(crn, user_item.crns) /\ ~InSeq(crn, user_item.notified_crns)

\* notifier.py:87  if phone_number and crn in user_item.get('crns', [])
EligibleUser(user_item, crn) == user_item.phone_number /\ InSeq(crn, user_item.crns)

\* A mark that leaves notified_crns as it was.
MarkedUser_Same(user_item, crn) == user_item

\* A write that stores a new item holding only the notified list.
MarkedUser_Fresh(user_item, crn) ==
  [NewUser EXCEPT !.notified_crns = Append(user_item.notified_crns, crn)]

\* notifier.py:182-185  notified_crns with crn appended
MarkedUser(user_item, crn) ==
  [user_item EXCEPT !.notified_crns = Append(@, crn)]

ncur == Head(nusers)

\* The loop of send_sms_notifications moves to the next user.
NextUser ==
  /\ nusers' = Tail(nusers)
  /\ npc' = IF Tail(nusers) = <<>> THEN "idle" ELSE "send"
  /\ nev' = IF Tail(nusers) = <<>> THEN NoItem ELSE nev

\* A lookup that gives up at the first user whose item cannot be read.
RECURSIVE UsersWithPhone_StopAtFailure(_, _, _)
UsersWithPhone_StopAtFailure(tracking_users, failed, crn) ==
  IF tracking_users = <<>> \/ Head(tracking_users) \in failed THEN <<>>
  ELSE LET u == Head(tracking_users)
           rest == UsersWithPhone_StopAtFailure(Tail(tracking_users), failed, crn)
       IN IF u \in DOMAIN users_table /\ EligibleUser(users_table[u], crn)
          THEN <<u>> \o rest ELSE rest

\* notifier.py:79-96  users_with_phone: the tracking users, in order,
\* whose item is read without error and passes the check of line 87.
RECURSIVE UsersWithPhone(_, _, _)
UsersWithPhone(tracking_users, failed, crn) ==
  IF tracking_users = <<>> THEN <<>>
  ELSE LET u == Head(tracking_users)
           rest == UsersWithPhone(Tail(tracking_users), failed, crn)
       IN IF u \notin failed /\ u \in DOMAIN users_table /\ EligibleUser(users_table[u], crn)
          THEN <<u>> \o rest ELSE rest

\* notifier.py:16-32, 63-108  an invocation starts: handler,
\* send_sms_notifications and get_users_tracking_crn, which reads the CRN
\* record (a missing record or a store error gives no users) and then the
\* item of each tracking user (an error skips that user).
NStart(i, ok, failed) ==
  /\ npc = "idle" /\ i \in 1..Len(inbox)
  /\ Outcome(ok /\ failed = {})
  /\ ok \/ failed = {}
  /\ inbox' = SubSeq(inbox, 1, i - 1) \o SubSeq(inbox, i + 1, Len(inbox))
  /\ LET crn == inbox[i].crn
         tracking_users == IF ok /\ crn \in DOMAIN crns_table THEN crns_table[crn].users ELSE <<>>
         users == UsersWithPhone(tracking_users, failed, crn)
     IN /\ \A u \in failed : InSeq(u, tracking_users)
        /\ nev' = IF users = <<>> THEN NoItem ELSE inbox[i]
        /\ nusers' = users
        /\ npc' = IF users = <<>> THEN "idle" ELSE "send"
  /\ nitem' = NoItem
  /\ UNCHANGED <<users_table, crns_table, regPage, clock, scraperVars, handlerVars,
                 sms, epSms, nOpened>>

\* notifier.py:121-164  one SMS through the gateway; a missing API key, a
\* refusal, an error or a timeout counts a failed send and moves on.
NSend(ok) ==
  /\ npc = "send"
  /\ Outcome(ok)
  /\ IF ok
     THEN /\ sms' = [sms EXCEPT ![ncur][nev.crn] = @ + 1]
          /\ epSms' = IF StoredOpen(crns_table, nev.crn)
                      THEN [epSms EXCEPT ![ncur][nev.crn] = @ + 1] ELSE epSms
          /\ npc' = "mark" /\ UNCHANGED <<nusers, nev>>
     ELSE /\ UNCHANGED <<sms, epSms>>
          /\ NextUser
  /\ UNCHANGED <<nitem, inbox, users_table, crns_table, regPage, clock,
                 scraperVars, handlerVars, nOpened>>

\* notifier.py:177-183  mark_user_notified reads the user item.
NMarkGet(ok) ==
  /\ npc = "mark"
  /\ Outcome(ok)
  /\ IF ok /\ ~InSeq(nev.crn, UserItem(ncur).notified_crns)
     THEN nitem' = UserItem(ncur) /\ npc' = "markput" /\ UNCHANGED <<nusers, nev>>
     ELSE nitem' = NoItem /\ NextUser
  /\ UNCHANGED <<inbox, users_table, crns_table, regPage, clock, scraperVars,
                 handlerVars, sms, epSms, nOpened>>

\* notifier.py:184-187  and writes it back whole.
NMarkPut(ok) ==
  /\ npc = "markput"
  /\ Outcome(ok)
  /\ users_table' = IF ok THEN Put(users_table, ncur, MarkedUser(nitem, nev.crn))
                    ELSE users_table
  /\ nitem' = NoItem
  /\ NextUser
  /\ UNCHANGED <<inbox, crns_table, regPage, clock, scraperVars,
                 handlerVars, sms, epSms, nOpened>>

Notifier ==
  \/ \E i \in 1..Len(inbox), ok \in BOOLEAN, failed \in SUBSET Users : NStart(i, ok, failed)
  \/ \E ok \in BOOLEAN : NSend(ok)
  \/ \E ok \in BOOLEAN : NMarkGet(ok)
  \/ \E ok \in BOOLEAN : NMarkPut(ok)

\* ----------------------------------------------------------- API handler
Request == hpc = "idle" /\ Event("req")

\* app.py:859-893 and 251-280  POST /crns: the CRN is looked up on the
\* registrar, appended to the user's list, and the CRN record is read.
AddCrn(u, c) ==
  /\ Request
  /\ check_crn_exists(regPage[c]).ok
  /\ ~InSeq(c, UserItem(u).crns)
  /\ users_table' = Put(users_table, u, [UserItem(u) EXCEPT !.crns = Append(@, c)])
  /\ LET existing_users == IF c \in DOMAIN crns_table THEN crns_table[c].users ELSE <<>>
     IN hitem' = HandlerCrnItem(check_crn_exists(regPage[c]), AppendNew(existing_users, u))
  /\ hcrn' = c /\ hpc' = "addput" /\ hlist' = hlist
  /\ UNCHANGED <<crns_table, regPage, clock, scraperVars, inbox, notifierVars,
                 sms, epSms, nOpened,
                 gateVars>>

\* app.py:291-307  the put of the CRN record; an error is printed and the
\* request still succeeds.
AddPut(ok) ==
  /\ hpc = "addput"
  /\ Outcome(ok)
  /\ crns_table' = IF ok THEN Put(crns_table, hcrn, hitem) ELSE crns_table
  /\ epSms' = EpAfter(crns_table', epSms)
  /\ hpc' = "idle" /\ hitem' = NoItem
  /\ UNCHANGED <<hcrn, hlist, users_table, regPage, clock, scraperVars, inbox,
                 notifierVars, sms, nOpened,
                 gateVars>>

\* app.py:324-356  DELETE /crns/<crn>: the CRN leaves the user's list and
\* the CRN record is read; NoItem stands for the delete_item to come.
RemoveCrn(u, c) ==
  /\ Request
  /\ u \in DOMAIN users_table
  /\ InSeq(c, users_table[u].crns)
  /\ users_table' = Put(users_table, u, [users_table[u] EXCEPT !.crns = Without(@, c)])
  /\ IF c \in DOMAIN crns_table
     THEN /\ hitem' = IF Without(crns_table[c].users, u) # <<>>
                      THEN [crns_table[c] EXCEPT !.users = Without(@, u)]
                      ELSE NoItem
          /\ hpc' = "remput"
     ELSE hitem' = NoItem /\ hpc' = "idle"
  /\ hcrn' = c /\ hlist' = hlist
  /\ UNCHANGED <<crns_table, regPage, clock, scraperVars, inbox, notifierVars,
                 sms, epSms, nOpened,
                 gateVars>>

\* app.py:357-374  the put or the delete of the CRN record.
RemPut(ok) ==
  /\ hpc = "remput"
  /\ Outcome(ok)
  /\ crns_table' = IF ~ok THEN crns_table
                   ELSE IF hitem = NoItem THEN Delete(crns_table, hcrn)
                   ELSE Put(crns_table, hcrn, hitem)
  /\ epSms' = EpAfter(crns_table', epSms)
  /\ hpc' = "idle" /\ hitem' = NoItem
  /\ UNCHANGED <<hcrn, hlist, users_table, regPage, clock, scraperVars, inbox,
                 notifierVars, sms, nOpened,
                 gateVars>>

\* app.py:474-517  POST /register-phone
RegisterPhone(u) ==
  /\ Request
  /\ ~UserItem(u).phone_number
  /\ users_table' = Put(users_table, u, [UserItem(u) EXCEPT !.phone_number = TRUE])
  /\ UNCHANGED <<handlerVars, crns_table, regPage, clock, scraperVars, inbox,
                 notifierVars, sms, epSms, nOpened>>

\* app.py:547-565  POST /remove-phone
RemovePhone(u) ==
  /\ Request
  /\ UserItem(u).phone_number
  /\ users_table' = Put(users_table, u, [UserItem(u) EXCEPT !.phone_number = FALSE])
  /\ UNCHANGED <<handlerVars, crns_table, regPage, clock, scraperVars, inbox,
                 notifierVars, sms, epSms, nOpened>>

\* app.py:1010-1021  /refresh, the CRNs of `list` in turn: the registrar
\* lookup (a CRN that no longer exists is passed over) and the read of the
\* CRN record (a missing record gives an empty users list).
RECURSIVE RefreshLookup(_)
RefreshLookup(list) ==
  IF list = <<>> THEN [list |-> <<>>, item |-> NoItem]
  ELSE LET c == Head(list)
           info == check_crn_exists(regPage[c])
           existing_users == IF c \in DOMAIN crns_table THEN crns_table[c].users ELSE <<>>
       IN IF info.ok THEN [list |-> list, item |-> HandlerCrnItem(info, existing_users)]
          ELSE RefreshLookup(Tail(list))

\* app.py:993-1021  POST /refresh reads the user's CRN list and looks up
\* the first CRN.
Refresh(u) ==
  /\ Request
  /\ u \in DOMAIN users_table
  /\ LET r == RefreshLookup(users_table[u].crns)
     IN /\ r.list # <<>>
        /\ hlist' = r.list /\ hitem' = r.item /\ hcrn' = Head(r.list)
  /\ hpc' = "refput"
  /\ UNCHANGED <<users_table, crns_table, regPage, clock, scraperVars,
                 inbox, notifierVars, sms, epSms, nOpened,
                 gateVars>>

\* app.py:1023-1037  the put of the refreshed record (an error is printed
\* and the loop goes on), then the lookup of the next CRN.
RefreshPut(ok) ==
  /\ hpc = "refput"
  /\ Outcome(ok)
  /\ crns_table' = IF ok THEN Put(crns_table, hcrn, hitem) ELSE crns_table
  /\ epSms' = EpAfter(crns_table', epSms)
  /\ LET r == RefreshLookup(Tail(hlist))
     IN /\ hlist' = r.list /\ hitem' = r.item
        /\ hcrn' = IF r.list = <<>> THEN hcrn ELSE Head(r.list)
        /\ hpc' = IF r.list = <<>> THEN "idle" ELSE "refput"
  /\ UNCHANGED <<users_table, regPage, clock, scraperVars, inbox,
                 notifierVars, sms, nOpened,
                 gateVars>>

Handler ==
  \/ \E u \in Users, c \in CRNs : AddCrn(u, c)
  \/ \E ok \in BOOLEAN : AddPut(ok)
  \/ \E u \in Users, c \in CRNs : RemoveCrn(u, c)
  \/ \E ok \in BOOLEAN : RemPut(ok)
  \/ \E u \in Users : RegisterPhone(u)
  \/ \E u \in Users : RemovePhone(u)
  \/ \E u \in Users : Refresh(u)
  \/ \E ok \in BOOLEAN : RefreshPut(ok)

\* ------------------------------------------------------------ registrar
\* The registrar's page of a CRN changes.
RegChange(c, p) ==
  /\ Event("reg")
  /\ p \in Pages /\ p # regPage[c]
  /\ regPage' = [regPage EXCEPT ![c] = p]
  /\ UNCHANGED <<users_table, crns_table, clock, scraperVars, inbox, notifierVars,
                 handlerVars, sms, epSms, nOpened>>

Registrar == \E c \in CRNs, p \in Pages : RegChange(c, p)

Next == Scraper \/ Notifier \/ Handler \/ Registrar

Spec == Init /\ [][Next]_vars

\* The scraper and the notifier alone, running for ever, on a CRN the
\* registrar shows open and keeps open while the stored record says
\* closed, tracked by u1 who has a phone number.  The scraper is started
\* again by its schedule and every accepted notifier invocation runs.
ScraperLive ==
  \/ \E ok \in BOOLEAN, failed \in SUBSET CRNs, ord \in Orders(DOMAIN crns_table) :
       ScanLive(ok, failed, ord)
  \/ \E ok \in BOOLEAN : GetRecord(ok)
  \/ \E ok \in BOOLEAN : PutRecord(ok)
  \/ \E accepted \in BOOLEAN : Invoke(accepted)

LiveInit == Init /\ regPage = [c \in CRNs |-> SeatPage(1)] /\ "u1" \in DOMAIN users_table /\ users_table["u1"].phone_number

NextLive == ScraperLive \/ Notifier

LiveSpec == LiveInit /\ [][NextLive]_vars /\ WF_vars(ScraperLive) /\ WF_vars(Notifier)

\* The scraper and the API handler over a registrar page whose seats row
\* is any row the parser accepts.
RowInit == InitWith(RowPages, {EmptyTable}, None) /\ Untimed /\ NoRequest

RowNext == Scraper \/ Handler

RowSpec == RowInit /\ [][RowNext]_vars

\* calculate_next_interval on its own: the end of a tick whose scan gave
\* any metadata collection, the function called directly (line 76) or
\* through the handler's branch on crns_to_check (lines 65-76).
Calc(direct) ==
  /\ spc = "idle" /\ next_interval = None
  /\ next_interval' = IF direct THEN calculate_next_interval(crn_metadata)
                      ELSE TickInterval(DOMAIN crn_metadata, crn_metadata)
  /\ UNCHANGED <<users_table, crns_table, regPage, clock, spc, statuses, results, todo,
                 existing, attempt, crn_metadata, inbox, notifierVars, handlerVars,
                 events, sms, epSms, nOpened,
                 loopVars>>

CalcInit ==
  /\ InitWith({SeatPage(0)}, MetaCollections, None) /\ Untimed /\ NoRequest
  /\ DOMAIN users_table = {"u1"} /\ ~users_table["u1"].phone_number

CalcNext == \E direct \in BOOLEAN : Calc(direct)

CalcSpec == CalcInit /\ [][CalcNext]_vars

\* The scraper alone on a record it has already seen closed on several
\* ticks in a row, more than the threshold of a recent change.
LongClosedChecks == RECENTLY_CHANGED_THRESHOLD + 2

SettledInit ==
  InitWith({SeatPage(0), SeatPage(1)}, {EmptyTable}, LongClosedChecks) /\ Untimed /\ NoRequest

SettledSpec == SettledInit /\ [][Scraper]_vars

\* The schedule in which every API request is made and answered before
\* the scraper's first tick, and the ticks then run with no request.
SerialNext ==
  \/ clock = 0 /\ spc = "idle" /\ Handler
  \/ hpc = "idle" /\ Scraper

SerialSpec == Init /\ [][SerialNext]_vars

\* ---------------------------------------------- requests before a tick
\* The scraper and the notifier running for ever as in LiveSpec, on a CRN
\* the registrar has just turned open and keeps open, with the requests
\* that write the CRN record and leave u1's tracking and phone number
\* alone: another user's add of the CRN, and /refresh.  The requests are
\* made or not; the scraper is started again by its schedule.
RaceNext ==
  \/ ScraperLive
  \/ Notifier
  \/ \E u \in Users, c \in CRNs : AddCrn(u, c)
  \/ \E ok \in BOOLEAN : AddPut(ok)
  \/ \E u \in Users : Refresh(u)
  \/ \E ok \in BOOLEAN : RefreshPut(ok)

RaceSpec == LiveInit /\ [][RaceNext]_vars /\ WF_vars(ScraperLive) /\ WF_vars(Notifier)

\* -------------------------------------------------------- invocations
\* The scraper alone with a notifier that may refuse every invocation:
\* the attempts of send_notification fail without counting as events.
RetryNext ==
  \/ \E ok \in BOOLEAN, failed \in SUBSET CRNs, ord \in Orders(DOMAIN crns_table) :
       Scan(ok, failed, ord)
  \/ \E ok \in BOOLEAN : GetRecord(ok)
  \/ \E ok \in BOOLEAN : PutRecord(ok)
  \/ \E accepted \in BOOLEAN : SendAttempt(accepted) /\ events' = events

RetrySpec == Init /\ [][RetryNext]_vars

\* ------------------------------------------------------ user records
\* app.py:382-404  POST /register-push: the subscription is stored in the
\* user item read just before.
RegisterPush(u) ==
  /\ Request
  /\ ~UserItem(u).push_subscription
  /\ users_table' = Put(users_table, u, [UserItem(u) EXCEPT !.push_subscription = TRUE])
  /\ UNCHANGED <<handlerVars, crns_table, regPage, clock, scraperVars, inbox,
                 notifierVars, sms, epSms, nOpened>>

\* Every kind of request, /register-push included, made and answered
\* before the scraper's first tick; the ticks and the notifier runs they
\* start then go on with no request.
UserNext ==
  \/ clock = 0 /\ spc = "idle" /\ Handler
  \/ \E u \in Users : clock = 0 /\ spc = "idle" /\ RegisterPush(u)
  \/ hpc = "idle" /\ Scraper
  \/ hpc = "idle" /\ Notifier

UserSpec == Init /\ [][UserNext]_vars

\* ------------------------------------------------------------ two CRNs
\* The scraper alone over two tracked CRNs: u1, who has a phone number,
\* has added both while the registrar showed them full.
PairCRNs == {"c1", "c2"}

PairInit ==
  /\ users_table = [u \in {"u1"} |->
                      [phone_number |-> TRUE, push_subscription |-> FALSE,
                       crns |-> <<"c1", "c2">>, notified_crns |-> <<>>]]
  /\ crns_table = [c \in PairCRNs |-> HandlerCrnItem(check_crn_exists(SeatPage(0)), <<"u1">>)]
  /\ regPage \in [PairCRNs -> {SeatPage(0), SeatPage(1)}]
  /\ clock = 0
  /\ spc = "idle" /\ statuses = EmptyTable /\ results = EmptyTable /\ todo = <<>>
  /\ existing = NoItem /\ attempt = 0
  /\ crn_metadata = EmptyTable /\ next_interval = None
  /\ inbox = <<>>
  /\ npc = "idle" /\ nev = NoItem /\ nusers = <<>> /\ nitem = NoItem
  /\ hpc = "idle" /\ hcrn = "c1" /\ hitem = NoItem /\ hlist = <<>>
  /\ events = [reg |-> 0, req |-> 0, fault |-> 0]
  /\ sms = [u \in Users |-> [c \in CRNs |-> 0]]
  /\ epSms = [u \in Users |-> [c \in CRNs |-> 0]]
  /\ nOpened = [c \in PairCRNs |-> 0]
  /\ Untimed /\ NoRequest

PairNext ==
  \/ \E ok \in BOOLEAN, failed \in SUBSET PairCRNs, ord \in Orders(DOMAIN crns_table) :
       Scan(ok, failed, ord)
  \/ \E ok \in BOOLEAN : GetRecord(ok)
  \/ \E ok \in BOOLEAN : PutRecord(ok)
  \/ \E accepted \in BOOLEAN : Invoke(accepted)

PairSpec == PairInit /\ [][PairNext]_vars

\* --------------------------------------------------- authentication gate
\* The events lambda_handler is called with: a method, a path, and the
\* headers, which are null or a map in which each spelling of the
\* Authorization header is absent, empty, or carries a token that
\* validate_google_jwt accepts ("good") or rejects ("bad").
Methods == {"GET", "POST", "DELETE", "OPTIONS"}
Paths == {"/health", "/health/", "/crns", "/refresh"}
Absent == "absent"
HeaderValues == {Absent, "", "good", "bad"}
NullHeaders == [null |-> TRUE, Authorization |-> Absent, authorization |-> Absent]
HeaderMaps == {[null |-> FALSE, Authorization |-> a, authorization |-> b] :
                 a \in HeaderValues, b \in HeaderValues}
Events == [httpMethod : Methods, path : Paths, headers : HeaderMaps \cup {NullHeaders}]

\* app.py:800  event.get('path', '/').rstrip('/')
rstrip(path) == IF path = "/health/" THEN "/health" ELSE path

\* app.py:826  headers.get('Authorization') or headers.get('authorization')
auth_header(headers) ==
  IF headers.Authorization \notin {Absent, ""} THEN headers.Authorization
  ELSE headers.authorization

Answer(code, err) == [kind |-> "response", statusCode |-> code, error |-> err]

\* app.py:794-843  lambda_handler up to the routing: the preflight, the
\* health check, the missing header, the token.  headers.get on null
\* headers raises AttributeError outside any try; a request that passes
\* goes on to the routes, which read and write the store.
lambda_handler(ev) ==
  IF ev.httpMethod = "OPTIONS" THEN Answer(200, "")
  ELSE IF rstrip(ev.path) = "/health" /\ ev.httpMethod = "GET" THEN Answer(200, "")
  ELSE IF ev.headers.null
       THEN [kind |-> "raise", statusCode |-> None, error |-> "AttributeError"]
  ELSE IF auth_header(ev.headers) \in {Absent, ""}
       THEN Answer(401, "Missing authorization header")
  ELSE IF auth_header(ev.headers) # "good"
       THEN Answer(401, "Invalid or expired token")
  ELSE [kind |-> "route", statusCode |-> None, error |-> ""]

\* An event arrives.
Receive(ev) ==
  /\ hpc = "idle" /\ (event = NoItem \/ response # NoItem)
  /\ event' = ev /\ response' = NoItem
  /\ UNCHANGED <<hpc, hcrn, hitem, hlist, users_table, crns_table, regPage, clock,
                 scraperVars, inbox, notifierVars, events, sms, epSms, nOpened>>

\* lambda_handler answers it, raises, or passes it on to its route.
Gate ==
  /\ hpc = "idle" /\ event # NoItem /\ response = NoItem
  /\ response' = lambda_handler(event)
  /\ UNCHANGED <<event, hpc, hcrn, hitem, hlist, users_table, crns_table, regPage, clock,
                 scraperVars, inbox, notifierVars, events, sms, epSms, nOpened>>

GateInit ==
  /\ InitWith({SeatPage(0)}, {EmptyTable}, None) /\ Untimed /\ NoRequest
  /\ DOMAIN users_table = {"u1"} /\ ~users_table["u1"].phone_number

GateNext == (\E ev \in Events : Receive(ev)) \/ Gate

GateSpec == GateInit /\ [][GateNext]_vars

\* ------------------------------------------------------- scraper handler
\* scraper.py:18 and 92
MAX_RUNTIME == 780
ERROR_SLEEP == 5

\* The work of a tick (scan, fetches, writes, invocations) takes no time
\* or MaxWork seconds.
MaxWork == 3
TickTimes == {0, MaxWork}

\* scraper.py:82  remaining_time = MAX_RUNTIME - (time.time() - start_time)
remaining_time(now) == MAX_RUNTIME - now

\* scraper.py:82-88 and 94-103  the end of a tick at time `now`: break and
\* return 200 when the interval does not fit, else sleep the interval.
AfterTick(now, interval) ==
  IF remaining_time(now) < interval
  THEN [elapsed |-> now, lpc |-> "returned", status |-> 200]
  ELSE [elapsed |-> now + interval, lpc |-> "while", status |-> None]

\* A loop without the except clause: the exception leaves the handler.
AfterError_Propagates(now) == [elapsed |-> now, lpc |-> "raised", status |-> None]

\* scraper.py:90-92  except Exception: log, time.sleep(5), next iteration
AfterError(now) == [elapsed |-> now + ERROR_SLEEP, lpc |-> "while", status |-> None]

Loop(l) == elapsed' = l.elapsed /\ lpc' = l.lpc /\ status' = l.status

\* scraper.py:55 and 94-103  the while condition; the handler returns 200
\* when it fails.
LWhile ==
  /\ lpc = "while"
  /\ IF elapsed < MAX_RUNTIME
     THEN lpc' = "try" /\ status' = status
     ELSE lpc' = "returned" /\ status' = 200
  /\ next_interval' = None
  /\ UNCHANGED <<elapsed, users_table, crns_table, regPage, clock, spc, statuses, results,
                 todo, existing, attempt, crn_metadata, inbox, notifierVars, handlerVars,
                 events, sms, epSms, nOpened>>

\* scraper.py:61  the tick of this iteration starts with the scan.
LScan(ok, failed, ord) == lpc = "try" /\ next_interval = None /\ ScanLive(ok, failed, ord)

\* scraper.py:72  the results of the tick are processed.
LProcess ==
  /\ lpc = "try"
  /\ \/ \E ok \in BOOLEAN : GetRecord(ok)
     \/ \E ok \in BOOLEAN : PutRecord(ok)
     \/ \E accepted \in BOOLEAN : Invoke(accepted)

\* scraper.py:78-88  the tick is over, its work has taken d seconds.
LCheck(d) ==
  /\ lpc = "try" /\ spc = "idle" /\ next_interval # None
  /\ Loop(AfterTick(elapsed + d, next_interval))
  /\ UNCHANGED <<users_table, crns_table, regPage, clock, spc, statuses, results, todo,
                 existing, attempt, crn_metadata, next_interval, inbox, notifierVars,
                 handlerVars, events, sms, epSms, nOpened>>

\* scraper.py:72 and 90-92  asyncio.run raises d seconds into the tick,
\* before any result is processed (the event loop or the HTTP session
\* cannot be set up): the only exception no function of the tick catches.
LRaise(d) ==
  /\ lpc = "try" /\ spc = "idle" /\ next_interval = None
  /\ \E c \in DOMAIN crns_table : crns_table[c].users # <<>>
  /\ Event("fault")
  /\ Loop(AfterError(elapsed + d))
  /\ UNCHANGED <<users_table, crns_table, regPage, clock, spc, statuses, results, todo,
                 existing, attempt, crn_metadata, next_interval, inbox, notifierVars,
                 handlerVars, sms, epSms, nOpened>>

LoopInit ==
  /\ InitWith({SeatPage(0), SeatPage(1)}, {EmptyTable}, None) /\ NoRequest
  /\ elapsed = 0 /\ lpc = "while" /\ status = None

LoopNext ==
  \/ LWhile
  \/ \E ok \in BOOLEAN, failed \in SUBSET CRNs, ord \in Orders(DOMAIN crns_table) :
       LScan(ok, failed, ord)
  \/ LProcess
  \/ \E d \in TickTimes : LCheck(d)
  \/ \E d \in TickTimes : LRaise(d)

LoopSpec == LoopInit /\ [][LoopNext]_vars

\* ================================================================ claims
Quiescent == spc = "idle" /\ npc = "idle" /\ inbox = <<>> /\ hpc = "idle"

\* No API request and no failed call so far.
Undisturbed == events.req = 0 /\ events.fault = 0

Tracks(u, c) == u \in DOMAIN users_table /\ InSeq(c, users_table[u].crns)
HasPhone(u) == u \in DOMAIN users_table /\ users_table[u].phone_number

\* The step in which the scraper's put_item of the current record succeeds.
ScraperPut == spc = "put" /\ spc' # "put" /\ events' = events

\* The step in which the gateway accepts an SMS to u about c.
SmsSent(u, c) == sms'[u][c] > sms[u][c]

\* C1: the notifier is invoked for a CRN only by the scraper, for a result
\* whose fetch succeeded and is open while the status scanned at the start
\* of the tick was closed; no other outcome adds an invocation.
C1_InvokeOnlyOnOpened ==
  [][inbox' # inbox /\ Len(inbox') >= Len(inbox) =>
       /\ spc = "invoke"
       /\ results[cur].ok /\ results[cur].is_open /\ statuses[cur] = "closed"
       /\ Len(inbox') = Len(inbox) + 1
       /\ inbox'[Len(inbox')].crn = cur]_vars

C1_Witness == spc = "idle" /\ Len(inbox) = 1 /\ nOpened["c1"] = 1 /\ StoredOpen(crns_table, "c1")

\* C2: at most one SMS per user and CRN within one open episode of the
\* stored record.
C2_AtMostOnePerEpisode == \A u \in Users, c \in CRNs : epSms[u][c] <= 1

\* C3: while the registrar keeps the CRN open and failures stop, every
\* user who tracks it and has a phone number eventually gets an SMS for it.
C3_EventuallySms ==
  \A u \in Users : (Tracks(u, "c1") /\ HasPhone(u)) ~> (sms[u]["c1"] > 0)

\* C4 as claimed: at the moment of every send, the user tracks the CRN and
\* has a phone number.
C4_EligibleAtSend ==
  [][\A u \in Users, c \in CRNs : SmsSent(u, c) => Tracks(u, c) /\ HasPhone(u)]_vars

\* C4 as amended: every send of a notifier run goes to a user who tracked
\* the CRN and had a phone number when that run looked the user up; a user
\* without phone number gets no SMS and no notified_crns entry.
C4_EligibleAtLookup ==
  [][/\ (npc = "idle" /\ npc' # "idle") =>
          \A i \in 1..Len(nusers') :
             Tracks(nusers'[i], nev'.crn) /\ HasPhone(nusers'[i])
     /\ (npc # "idle" /\ npc' # "idle") =>
          /\ nev' = nev
          /\ nusers' = nusers \/ nusers' = Tail(nusers)
     /\ \A u \in Users, c \in CRNs :
          /\ SmsSent(u, c) => npc = "send" /\ u = ncur /\ c = nev.crn
          /\ (u \in DOMAIN users_table /\ users_table'[u].notified_crns # users_table[u].notified_crns) =>
               npc = "markput" /\ u = ncur /\ sms[u][nev.crn] > 0]_vars

C4_Witness ==
  /\ npc = "send" /\ ~(Tracks(ncur, nev.crn) /\ HasPhone(ncur))
  /\ \E u \in Users : Tracks(u, "c1") /\ ~HasPhone(u) /\ sms[u]["c1"] = 0 /\ StoredOpen(crns_table, "c1")

\* C5: with the gateway and the store answering and no API request, every
\* closed-to-open observation yields exactly one SMS to every tracking user
\* with a phone number: a second opening is not suppressed by the first.
C5_OneSmsPerOpening ==
  (Quiescent /\ Undisturbed) =>
     \A u \in Users, c \in CRNs :
        sms[u][c] = IF Tracks(u, c) /\ HasPhone(u) THEN nOpened[c] ELSE 0

C5_Witness ==
  /\ Quiescent /\ Undisturbed
  /\ nOpened["c1"] = 2 /\ sms["u1"]["c1"] = 2
  /\ ~StoredOpen(crns_table, "c1") \/ clock = MaxTicks

\* C6: no SMS about C goes to a user whose notified_crns contains C.
C6_NoSmsToNotified ==
  [][\A u \in Users, c \in CRNs :
       SmsSent(u, c) => ~InSeq(c, UserItem(u).notified_crns)]_vars

\* C7: the write of a CLOSED transition (scanned open, observed closed)
\* leaves C in the notified_crns of no user tracking C.
C7_ClosedResetsNotified ==
  [][(ScraperPut /\ results[cur].ok /\ ~results[cur].is_open /\ statuses[cur] = "open") =>
       \A u \in DOMAIN users_table' :
          InSeq(cur, users_table'[u].crns) => ~InSeq(cur, users_table'[u].notified_crns)]_vars

\* C8: the write after a failed fetch is the record read by that update
\* with consecutive_closed_checks one higher and nothing else changed, and
\* no notification follows.
C8_FailedWrite ==
  [][(ScraperPut /\ ~results[cur].ok) =>
       /\ crns_table'[cur].consecutive_closed_checks = Get(existing.consecutive_closed_checks, 0) + 1
       /\ crns_table'[cur].isOpen = existing.isOpen
       /\ crns_table'[cur].seats_remaining = existing.seats_remaining
       /\ crns_table'[cur].total_seats = existing.total_seats
       /\ crns_table'[cur].users = existing.users
       /\ crns_table'[cur].last_updated = existing.last_updated
       /\ crns_table'[cur].last_status_change = existing.last_status_change
       /\ spc' # "invoke" /\ inbox' = inbox /\ sms' = sms]_vars

\* A record never observed whose counter counts failed fetches only.
C8_Witness ==
  /\ "c1" \in DOMAIN crns_table
  /\ crns_table["c1"].last_updated = None
  /\ crns_table["c1"].consecutive_closed_checks = 1
  /\ spc = "idle" /\ inbox = <<>>

\* C9: the write of an OPENED transition has isOpen true, the counter 0 and
\* last_status_change equal to the timestamp of the observation.
C9_OpenedWrite ==
  [][(ScraperPut /\ results[cur].ok /\ results[cur].is_open /\ statuses[cur] = "closed") =>
       /\ crns_table'[cur].isOpen
       /\ crns_table'[cur].consecutive_closed_checks = 0
       /\ crns_table'[cur].last_status_change = results[cur].last_checked
       /\ results[cur].last_checked = clock]_vars

C9_Witness ==
  /\ spc = "invoke" /\ existing # NoItem
  /\ Get(existing.consecutive_closed_checks, 0) >= 1
  /\ crns_table[cur].isOpen
  /\ crns_table[cur].consecutive_closed_checks = 0
  /\ crns_table[cur].last_status_change = clock

\* C10: the write of a CLOSED transition has the counter exactly 1 and
\* last_status_change equal to the timestamp of the observation.
C10_ClosedWrite ==
  [][(ScraperPut /\ results[cur].ok /\ ~results[cur].is_open /\ statuses[cur] = "open") =>
       /\ crns_table'[cur].consecutive_closed_checks = 1
       /\ crns_table'[cur].last_status_change = results[cur].last_checked]_vars

\* C11: with the scraper the only writer of CRN records, a record that the
\* tick scanned as open (so it was open after the previous tick) and that
\* is open after the tick's write has consecutive_closed_checks 0.
C11_OpenKeepsZero ==
  [][(ScraperPut /\ events.req = 0 /\ statuses[cur] = "open" /\ crns_table'[cur].isOpen) =>
       Get(crns_table'[cur].consecutive_closed_checks, 0) = 0]_vars

\* C12: every CRN record in the store, whoever wrote it, has isOpen true
\* exactly when seats_remaining is above 0.
C12_OpenIffSeats ==
  \A c \in DOMAIN crns_table : crns_table[c].isOpen <=> crns_table[c].seats_remaining > 0

\* An open record written by the handler after the scraper had written an
\* open record on a closed-to-open observation.
C12_Witness ==
  /\ "c1" \in DOMAIN crns_table /\ hpc = "idle" /\ events.req >= 1
  /\ nOpened["c1"] >= 1 /\ events.fault = 0
  /\ crns_table["c1"].isOpen /\ crns_table["c1"].seats_remaining > 0
  /\ crns_table["c1"].last_updated = None

\* C13: every CRN record in the store has seats_remaining at most
\* total_seats, whatever seats row the registrar page carries.
C13_RemainingWithinTotal ==
  \A c \in DOMAIN crns_table : crns_table[c].seats_remaining <= crns_table[c].total_seats

\* The bidirectional index: c is in u's tracked list exactly when u is in
\* the users list of c's record.
Index ==
  \A u \in Users, c \in CRNs :
    Tracks(u, c) <=> (c \in DOMAIN crns_table /\ InSeq(u, crns_table[c].users))

\* C14: once the requests have been answered and a scraper tick has run
\* after them, the bidirectional index holds.
C14_IndexAfterTick ==
  (spc = "idle" /\ hpc = "idle" /\ clock >= 1 /\ events.req >= 1) => Index

\* C15: with no failed call, once the scraper and the handler are at rest
\* the users list of every stored record holds exactly the users whose
\* tracked list holds the CRN: no completed add or remove is lost.
C15_NoLostMembership ==
  (spc = "idle" /\ hpc = "idle" /\ events.fault = 0) =>
    \A c \in DOMAIN crns_table, u \in Users :
      Tracks(u, c) <=> InSeq(u, crns_table[c].users)

\* C16: with no failed call, once the scraper and the handler are at rest
\* a CRN has a record exactly when some user tracks it.
C16_RecordWhileTracked ==
  (spc = "idle" /\ hpc = "idle" /\ events.fault = 0) =>
    \A c \in CRNs : c \in DOMAIN crns_table <=> \E u \in Users : Tracks(u, c)

\* C17: calculate_next_interval returns FAST for every collection holding a
\* record with consecutive_closed_checks at most the threshold.
C17_FastWhenRecent ==
  (next_interval # None
     /\ \E k \in DOMAIN crn_metadata :
          crn_metadata[k].consecutive_closed_checks <= RECENTLY_CHANGED_THRESHOLD)
  => next_interval = FAST_INTERVAL

\* No record of the collection is open or has a counter within the threshold.
NoRecentNoOpen ==
  \A k \in DOMAIN crn_metadata :
    /\ ~crn_metadata[k].isOpen
    /\ crn_metadata[k].consecutive_closed_checks > RECENTLY_CHANGED_THRESHOLD

HighDemand == {k \in DOMAIN crn_metadata : crn_metadata[k].users_count >= HIGH_DEMAND_USERS}
LongClosed == {k \in DOMAIN crn_metadata :
                 crn_metadata[k].consecutive_closed_checks >= CONSISTENTLY_CLOSED_CHECKS}

\* C18 as claimed, on non-empty collections: with no open and no recent
\* record, BASE exactly when
\* the high-demand records outnumber the records closed for 15 checks or
\* more, a record counting on both sides.
C18_BaseBySeparateCounts ==
  (next_interval # None /\ DOMAIN crn_metadata # {} /\ NoRecentNoOpen) =>
    next_interval = IF Cardinality(HighDemand) > Cardinality(LongClosed)
                    THEN BASE_INTERVAL ELSE SLOW_INTERVAL

\* C18: for a non-empty collection with no open and no recent record, BASE
\* exactly when the high-demand records outnumber the records closed for
\* 15 checks or more that are not high-demand, else SLOW.
C18_BaseByClass ==
  (next_interval # None /\ DOMAIN crn_metadata # {} /\ NoRecentNoOpen) =>
    next_interval = IF Cardinality(HighDemand) > Cardinality(LongClosed \ HighDemand)
                    THEN BASE_INTERVAL ELSE SLOW_INTERVAL

\* BASE was chosen although the high-demand records do not outnumber
\* the long-closed ones counted separately.
C18_Witness ==
  /\ next_interval = BASE_INTERVAL /\ DOMAIN crn_metadata # {} /\ NoRecentNoOpen
  /\ Cardinality(HighDemand) <= Cardinality(LongClosed)
  /\ LongClosed \ HighDemand # {}

\* C19: calculate_next_interval, called directly or through the handler's
\* branch, returns one of FAST, OPEN, BASE, SLOW, and BASE for the empty
\* collection.
C19_IntervalTotal ==
  next_interval # None =>
    /\ next_interval \in {FAST_INTERVAL, OPEN_COURSE_INTERVAL, BASE_INTERVAL, SLOW_INTERVAL}
    /\ DOMAIN crn_metadata = {} => next_interval = BASE_INTERVAL

C19_Witness == next_interval = BASE_INTERVAL /\ DOMAIN crn_metadata = {}

\* The metadata a scan of table t would give.
StoredMetadata(t) ==
  [c \in {x \in DOMAIN t : t[x].users # <<>>} |-> Metadata(t[c])]

\* C20: the interval chosen when a tick ends is the one
\* calculate_next_interval gives for the records as the tick left them.
C20_IntervalFromWrittenRecords ==
  [][(spc # "idle" /\ spc' = "idle") =>
       next_interval' = calculate_next_interval(StoredMetadata(crns_table'))]_vars

\* No request, no failed call and no change of the registrar page so far:
\* every tick has fetched the same page and written the record.
Steady == events.req = 0 /\ events.fault = 0 /\ events.reg = 0

C24_NoNotifyWhenWriteFails ==
  [][(spc \in {"get", "put"} /\ events'.fault > events.fault) => spc' # "invoke"]_vars

\* A step of a notifier run: the send loop moves on.
NotifierStep == npc # "idle" /\ (npc' # npc \/ nusers' # nusers)

\* C25 as claimed: when the run leaves the marking of a user whose SMS the
\* gateway accepted, the CRN is in that user's notified_crns.
C25_MarkedWhenSent ==
  [][(NotifierStep /\ npc \in {"mark", "markput"}) =>
       ncur \in DOMAIN users_table' /\ InSeq(nev.crn, users_table'[ncur].notified_crns)]_vars

\* C25: in a notifier run the users table changes only by the write of
\* mark_user_notified for the user whose SMS the gateway accepted, which
\* appends the CRN to the notified_crns it read; when that write succeeds
\* the CRN is in the user's notified_crns; a failed send leaves the users
\* table unchanged and drops the user from the run.
C25_MarkedIffSentAndStored ==
  [][NotifierStep =>
       /\ users_table' # users_table =>
            /\ npc = "markput" /\ events' = events /\ sms[ncur][nev.crn] >= 1
            /\ users_table'[ncur].notified_crns = Append(nitem.notified_crns, nev.crn)
            /\ \A u \in DOMAIN users_table \ {ncur} : users_table'[u] = users_table[u]
       /\ (npc = "markput" /\ events' = events) =>
            InSeq(nev.crn, users_table'[ncur].notified_crns)
       /\ (npc = "send" /\ sms' = sms) =>
            /\ users_table' = users_table
            /\ nusers' = Tail(nusers) /\ ~InSeq(ncur, nusers')
       /\ (npc = "send" /\ sms' # sms) =>
            users_table' = users_table /\ npc' = "mark"]_vars

\* A run has marked u1 for c1 after a send the gateway accepted, in a
\* behaviour where some call has failed.
C25_Witness ==
  /\ "u1" \in DOMAIN users_table /\ InSeq("c1", users_table["u1"].notified_crns)
  /\ sms["u1"]["c1"] >= 1 /\ events.fault >= 1 /\ npc = "idle"

\* C26: a failure while handling one user of a notifier run does not keep
\* the run from the others: a failed read of a user's item in the lookup
\* leaves every other eligible tracking user in the run, and every step
\* that ends the handling of a user, failed or not, moves to the send for
\* the next user of the run.
C26_FailuresIsolated ==
  [][/\ \A i \in 1..Len(inbox), failed \in SUBSET Users :
          NStart(i, TRUE, failed) =>
            \A u \in Users \ failed :
              (/\ inbox[i].crn \in DOMAIN crns_table
               /\ InSeq(u, crns_table[inbox[i].crn].users)
               /\ u \in DOMAIN users_table
               /\ EligibleUser(users_table[u], inbox[i].crn)) => InSeq(u, nusers')
     /\ (NotifierStep /\ nusers' # nusers) =>
          /\ nusers' = Tail(nusers)
          /\ nusers' # <<>> => npc' = "send" /\ nev' = nev]_vars

\* In a run over u1 and then u2 the handling of u1 has failed (the read
\* of its item or its send) and the SMS to u2 has been accepted.
C26_Witness ==
  /\ npc = "mark" /\ nusers = <<"u2">> /\ sms["u1"][nev.crn] = 0
  /\ events.req = 0 /\ events.fault >= 1
  /\ nev.crn \in DOMAIN crns_table /\ crns_table[nev.crn].users = <<"u1", "u2">>
  /\ EligibleUser(UserItem("u1"), nev.crn)

\* C27: while a CRN record exists, a last_updated once stored is never
\* lost and never decreases.
C27_LastUpdatedMonotone ==
  [][\A c \in CRNs :
       (c \in DOMAIN crns_table /\ c \in DOMAIN crns_table'
          /\ crns_table[c].last_updated # None) =>
         /\ crns_table'[c].last_updated # None
         /\ crns_table'[c].last_updated >= crns_table[c].last_updated]_vars

\* C28: every write to a CRN record that leaves isOpen as it was leaves
\* last_status_change as it was, and every write that flips isOpen stamps
\* last_status_change with the time of the write.
C28_StampIffFlip ==
  [][\A c \in CRNs :
       (c \in DOMAIN crns_table /\ c \in DOMAIN crns_table') =>
         IF crns_table'[c].isOpen = crns_table[c].isOpen
         THEN crns_table'[c].last_status_change = crns_table[c].last_status_change
         ELSE /\ crns_table'[c].last_status_change # None
              /\ crns_table'[c].last_status_change = crns_table'[c].last_updated]_vars

\* The closed observation of a page without a seats row, made at `now`.
NoSeatsObservation(now) ==
  [ok |-> TRUE, is_open |-> FALSE, seats_remaining |-> 0, total_seats |-> 0,
   last_checked |-> now]

\* C29: a page with the identity row and no seats row is a successful
\* closed observation with no seats: the tick that fetched it holds that
\* observation for the CRN, and its write stores closed with zero seats,
\* the counter one higher, last_status_change stamped exactly when the
\* scanned status was open, and no notification.
C29_NoSeatsRowIsClosed ==
  [][/\ (spc = "idle" /\ spc' = "get" /\ events' = events) =>
          \A c \in DOMAIN results' :
            regPage[c] = NoSeatsPage => results'[c] = NoSeatsObservation(clock')
     /\ (ScraperPut /\ results[cur] = NoSeatsObservation(clock)) =>
          /\ crns_table'[cur] =
               [isOpen |-> FALSE, seats_remaining |-> 0, total_seats |-> 0,
                users |-> existing.users, last_updated |-> clock,
                last_status_change |-> IF statuses[cur] = "open" THEN clock
                                       ELSE existing.last_status_change,
                consecutive_closed_checks |-> Get(existing.consecutive_closed_checks, 0) + 1]
          /\ spc' # "invoke" /\ inbox' = inbox]_vars

\* A tick has written the observation of a page without a seats row over
\* a record that said open: closed, no seats, stamped, counter 1.
C29_Witness ==
  /\ "c1" \in DOMAIN crns_table /\ regPage["c1"] = NoSeatsPage
  /\ crns_table["c1"].total_seats = 0 /\ ~crns_table["c1"].isOpen
  /\ crns_table["c1"].last_updated = clock
  /\ crns_table["c1"].last_status_change = clock
  /\ crns_table["c1"].consecutive_closed_checks = 1
  /\ nOpened["c1"] >= 1 /\ spc = "idle"

\* C21: no sleep of the handler's loop ends after MAX_RUNTIME: whenever
\* the loop is back at its while condition, at most MAX_RUNTIME seconds
\* have elapsed.
C21_NoSleepPastBudget == lpc = "while" => elapsed <= MAX_RUNTIME

\* C22 as claimed: a failure inside a tick sends the loop to its 5 s sleep
\* and then to the next iteration.
C22_FailureSleepsFive ==
  [][(lpc = "try" /\ events'.fault > events.fault) =>
       /\ lpc' = "while"
       /\ \E d \in TickTimes : elapsed' = elapsed + d + ERROR_SLEEP]_vars

\* C22: no exception leaves the handler and it returns only with status
\* 200; a failed scan, fetch, write or invocation is caught inside the
\* tick, which goes on (a failed scan gives BASE_INTERVAL) and ends with
\* the check of the remaining time against the interval; only an
\* exception that reaches the loop is followed by the 5 s sleep and the
\* next iteration.
C22_FailuresCaught ==
  [][/\ lpc' \in {"while", "try", "returned"}
     /\ (lpc' = "returned") <=> (status' = 200)
     /\ status' \in {None, 200}
     /\ (lpc = "try" /\ events'.fault > events.fault) =>
          \/ /\ spc = "idle" /\ spc' = "idle" /\ next_interval' = None
             /\ lpc' = "while" /\ status' = None
             /\ \E d \in TickTimes : elapsed' = elapsed + d + ERROR_SLEEP
          \/ /\ lpc' = "try" /\ elapsed' = elapsed
             /\ (spc = "idle" /\ spc' = "idle") => next_interval' = BASE_INTERVAL
     /\ (lpc = "try" /\ spc = "idle" /\ next_interval # None) =>
          \E d \in TickTimes :
            <<elapsed', lpc', status'>> =
              <<AfterTick(elapsed + d, next_interval).elapsed,
                AfterTick(elapsed + d, next_interval).lpc,
                AfterTick(elapsed + d, next_interval).status>>]_vars

\* The loop is back at its while condition after the 5 s sleep that
\* followed an exception.
C22_Witness ==
  /\ lpc = "while" /\ next_interval = None /\ events.fault >= 1
  /\ elapsed >= ERROR_SLEEP

\* The event carries no Authorization header, in either spelling.
NoAuthorization(ev) ==
  ev.headers.Authorization = Absent /\ ev.headers.authorization = Absent

\* C30: an event without Authorization header is answered 200 when it is
\* an OPTIONS preflight or GET /health, and otherwise 401 with the error
\* 'Missing authorization header', before any route is entered.
C30_GateWithoutHeader ==
  (event # NoItem /\ response # NoItem /\ NoAuthorization(event)) =>
    IF event.httpMethod = "OPTIONS"
         \/ (event.httpMethod = "GET" /\ rstrip(event.path) = "/health")
    THEN response = Answer(200, "")
    ELSE response = Answer(401, "Missing authorization header") /\ hpc = "idle"

\* The step that ends the scraper's update of the current result.
UpdateEnds == spc \in {"get", "put"} /\ spc' \notin {"get", "put"} /\ cur \in DOMAIN crns_table'

\* C31 as claimed: the update of a result that is closed or a failed fetch
\* leaves the stored counter one above the value scanned at the start of
\* the tick, and the update of an open result leaves it 0.
C31_CounterFromStored ==
  [][UpdateEnds =>
       crns_table'[cur].consecutive_closed_checks =
         IF results[cur].ok /\ results[cur].is_open THEN 0
         ELSE crn_metadata[cur].consecutive_closed_checks + 1]_vars

\* C31: the scraper's write of a result sets the counter to 0 for an open
\* observation and, for a closed observation or a failed fetch, to one
\* more than the counter of the record the update read (an absent counter
\* counts 0); no other step of the scraper changes the counter.
C31_CounterFromRead ==
  [][/\ ScraperPut =>
          crns_table'[cur].consecutive_closed_checks =
            IF results[cur].ok /\ results[cur].is_open THEN 0
            ELSE Get(existing.consecutive_closed_checks, 0) + 1
     /\ \A c \in CRNs :
          (/\ hpc' = hpc /\ c \in DOMAIN crns_table /\ c \in DOMAIN crns_table'
           /\ crns_table'[c].consecutive_closed_checks # crns_table[c].consecutive_closed_checks)
            => ScraperPut /\ c = cur]_vars

\* An open record whose fetch then failed: the counter went 0, then 1.
C31_Witness ==
  /\ "c1" \in DOMAIN crns_table /\ crns_table["c1"].isOpen
  /\ crns_table["c1"].consecutive_closed_checks = 1
  /\ crns_table["c1"].last_updated # None /\ events.req = 0 /\ spc = "idle"

\* A step that is not a step of the API handler.
NoHandlerStep == handlerVars' = handlerVars /\ events'.req = events.req

\* The record the running update read has been written or deleted by a
\* request since.
Overtaken == spc = "put" /\ (cur \notin DOMAIN crns_table \/ crns_table[cur] # existing)

\* C32: a step of a tick that no request has overtaken leaves the set of
\* CRN records and the users list of every record as they were, whatever
\* the result (open, closed, failed fetch, CRN not found, record absent).
C32_TickKeepsUsers ==
  [][(NoHandlerStep /\ ~Overtaken) =>
       /\ DOMAIN crns_table' = DOMAIN crns_table
       /\ \A c \in DOMAIN crns_table : crns_table'[c].users = crns_table[c].users]_vars

\* A tick has written the record of a CRN the registrar no longer has,
\* tracked by two users.
C32_Witness ==
  /\ regPage["c1"] = NotFoundPage /\ "c1" \in DOMAIN crns_table
  /\ crns_table["c1"].users = <<"u1", "u2">>
  /\ crns_table["c1"].consecutive_closed_checks = 1
  /\ crns_table["c1"].last_updated = None
  /\ events.req = 0 /\ events.fault = 0 /\ spc = "idle" /\ clock = 1

\* C33: within a tick a record is written and the notifier is invoked
\* only once every scanned CRN has its fetch result; the results are
\* taken one at a time in their order; a write is the write of the first
\* result not yet handled, an invocation is for that same CRN, and the
\* invocation of a CRN is reached only from the attempt to update it.
C33_FetchThenWriteThenInvoke ==
  [][/\ (crns_table' # crns_table \/ inbox' # inbox) =>
          todo # <<>> /\ DOMAIN results = DOMAIN statuses
     /\ crns_table' # crns_table =>
          /\ spc = "put"
          /\ \A c \in DOMAIN crns_table \ {Head(todo)} : crns_table'[c] = crns_table[c]
     /\ inbox' # inbox =>
          /\ spc = "invoke" /\ Len(inbox') = Len(inbox) + 1
          /\ inbox'[Len(inbox')].crn = Head(todo)
     /\ (spc' = "invoke" /\ spc # "invoke") => spc \in {"get", "put"} /\ todo' = todo
     /\ todo # <<>> => todo' = todo \/ todo' = Tail(todo)]_vars

\* The notifier is being invoked for the first of two results, after its
\* record was written open, while the second record is not yet written.
C33_Witness ==
  /\ spc = "invoke" /\ Len(todo) = 2
  /\ crns_table[todo[1]].isOpen /\ crns_table[todo[1]].last_updated = clock
  /\ crns_table[todo[2]].last_updated = None

\* C37: a failed call while one result is handled (the read or the write
\* of its record, the invocation of the notifier) does not end the tick:
\* the handling of that result goes on, or the update of the next result
\* starts with the results and statuses of the tick intact.
C37_ResultsIsolated ==
  [][(spc \in {"get", "put", "invoke"} /\ events'.fault > events.fault
        /\ Tail(todo) # <<>>) =>
       \/ todo' = todo /\ spc' \in {"put", "invoke"}
       \/ /\ todo' = Tail(todo) /\ spc' = "get"
          /\ results' = results /\ statuses' = statuses]_vars

\* The second result of a tick is being written after the update of the
\* first one failed and left its record unwritten.
C37_Witness ==
  /\ spc = "put" /\ Len(todo) = 1 /\ events.fault >= 1 /\ clock = 1
  /\ existing = crns_table[cur]
  /\ \E c \in PairCRNs \ {cur} : results[c].ok /\ crns_table[c].last_updated = None

\* C38: a handler write to a CRN record that already exists (a further
\* user's add, or /refresh) leaves the record's consecutive_closed_checks
\* and last_status_change as they were.
C38_HandlerKeepsCounters ==
  [][(hpc \in {"addput", "refput"} /\ hpc' # hpc
        /\ hcrn \in DOMAIN crns_table /\ crns_table' # crns_table) =>
       /\ crns_table'[hcrn].consecutive_closed_checks =
            crns_table[hcrn].consecutive_closed_checks
       /\ crns_table'[hcrn].last_status_change =
            crns_table[hcrn].last_status_change]_vars

\* C36: the notifier's write in mark_user_notified, made when no request
\* is in progress, never puts the CRN of its event back into the tracked
\* list of a user who has removed it since the notifier read the record.
C36_RemovalNotUndone ==
  [][(npc = "markput" /\ NotifierStep /\ hpc = "idle"
        /\ ncur \in DOMAIN users_table') =>
       (InSeq(nev.crn, users_table'[ncur].crns) =>
          InSeq(nev.crn, UserItem(ncur).crns))]_vars

\* The fields of u's item other than those named in `about` are the same
\* before and after the step, and so is every other user's item.
OnlyChanges(u, about) ==
  /\ u \in DOMAIN users_table'
  /\ \A v \in DOMAIN users_table' \ {u} :
       v \in DOMAIN users_table /\ users_table'[v] = users_table[v]
  /\ DOMAIN users_table \subseteq DOMAIN users_table'
  /\ \A f \in {"phone_number", "push_subscription", "crns", "notified_crns"} \ about :
       users_table'[u][f] = UserItem(u)[f]

\* The step is a request that writes a user item.
UserWrite == hpc = "idle" /\ events'.req > events.req /\ users_table' # users_table

\* C34: a request that writes a user item changes one item and, in it,
\* one of crns (add, remove), phone_number (register, remove phone) and
\* push_subscription (register push), never notified_crns; the write of
\* mark_user_notified, made on the item as it was read, changes only
\* notified_crns of the user it is about.
C34_OneFieldPerWrite ==
  [][/\ UserWrite =>
          \E u \in Users :
            \/ hpc' \in {"addput", "remput"} /\ OnlyChanges(u, {"crns"})
            \/ /\ hpc' = "idle"
               /\ \/ OnlyChanges(u, {"crns"}) /\ crns_table = EmptyTable
                  \/ OnlyChanges(u, {"phone_number"})
                  \/ OnlyChanges(u, {"push_subscription"})
     /\ (npc = "markput" /\ NotifierStep /\ users_table' # users_table
           /\ ncur \in DOMAIN users_table /\ users_table[ncur] = nitem) =>
          OnlyChanges(ncur, {"notified_crns"})]_vars

\* mark_user_notified has written the item of a user who had registered
\* a phone number and a push subscription and tracks the CRN.
C34_Witness ==
  /\ "u1" \in DOMAIN users_table
  /\ users_table["u1"] = [phone_number |-> TRUE, push_subscription |-> TRUE,
                          crns |-> <<"c1">>, notified_crns |-> <<"c1">>]
  /\ npc = "idle" /\ events.req >= 1

\* C39: while send_notification runs it has made fewer than
\* INVOKE_ATTEMPTS attempts; an accepted attempt is the last one for the
\* CRN (the loop moves on to the next result and the attempt is not
\* repeated); a refused attempt is followed by the next one or, if it was
\* the last allowed, by the return to the loop over the results; and the
\* notifier is never invoked more often for a CRN than the CRN opened.
C39_AtMostThreeAttempts ==
  [][/\ spc = "invoke" =>
          /\ attempt < INVOKE_ATTEMPTS
          /\ inbox' # inbox =>
               /\ Len(inbox') = Len(inbox) + 1
               /\ todo' = Tail(todo) /\ spc' # "invoke"
          /\ (spc' = "invoke" /\ attempt' # attempt) =>
               /\ attempt' = attempt + 1 /\ attempt' < INVOKE_ATTEMPTS
               /\ inbox' = inbox /\ todo' = todo
          /\ (spc' # "invoke") => todo' = Tail(todo) /\ spc' \in {"idle", "get"}
     /\ \A c \in CRNs :
          Cardinality({i \in 1..Len(inbox') : inbox'[i].crn = c}) <= nOpened'[c]]_vars

\* send_notification has returned after three refused attempts for the
\* one opening of the tick.
C39_Witness ==
  /\ spc = "idle" /\ clock = 1 /\ attempt = INVOKE_ATTEMPTS - 1
  /\ inbox = <<>> /\ nOpened["c1"] = 1 /\ events.fault = 0

\* C35: from a record stored closed that u1, who has a phone number,
\* tracks, with the registrar open for good, the scraper eventually
\* reaches the invocation of the notifier for the CRN, also when a
\* request writes the CRN record before the scraper's next tick.
C35_EventuallyInvoked == <>(spc = "invoke" /\ cur = "c1")

====
